---- MODULE Spec2Model ----
(***************************************************************************)
(* cc-server-kit: configuration loading with its port watcher,             *)
(* configuration validation, logging initialisation, listener bring-up     *)
(* and shutdown (src/src/generic_setup.rs, src/src/startup.rs).            *)
(*                                                                         *)
(* Three embedding applications are specified over the same variables:     *)
(*   Spec        builds a GenericValues value, calls load_generic_state    *)
(*               (possibly again after an error) and hands a successful    *)
(*               state to start_with_service;                              *)
(*   SpecConfig  loads the value with load_generic_config from the two     *)
(*               configuration paths, waiting on the port file when the    *)
(*               document names one, and goes on as above;                 *)
(*   SpecStart   builds a root router, starts the server with start or     *)
(*               start_with_service, and stops it by Ctrl+C and by its     *)
(*               own clones of the handle.                                 *)
(***************************************************************************)
EXTENDS Integers, Sequences, FiniteSets, TLC

(* How many times the embedding application calls load_generic_state. *)
MaxCalls == 2

---------------------------------------------------------------------------
(* Option<T> and MResult<T> *)

None == <<>>
Some(x) == <<x>>
is_some(o) == o # None
is_none(o) == o = None
unwrap(o) == o[1]
unwrap_or(o, d) == IF o = None THEN d ELSE o[1]

(* ErrorResponse::from(text): every message built in generic_setup.rs is a
   string literal; nothing is interpolated into it. The messages are the
   source's, with ' for the backquote. *)
ErrorResponse(text) == [error_text |-> text, format_args |-> <<>>]
Ok(v) == [ok |-> TRUE, val |-> v]
Err(text) == [ok |-> FALSE, err |-> ErrorResponse(text)]

---------------------------------------------------------------------------
(* GenericValues: the fields load_generic_state and the listener bring-up read *)

Default ==
  [ startup_type          |-> "http_localhost",
    server_host           |-> None,
    server_port           |-> Some(8800),
    acme_domain           |-> None,
    ssl_key_path          |-> None,
    ssl_crt_path          |-> None,
    auto_migrate_bin      |-> None,
    server_port_achiever  |-> None,
    allow_oapi_access     |-> None,
    oapi_name             |-> None,
    oapi_ver              |-> None,
    oapi_api_addr         |-> None,
    log_level             |-> Some("debug"),
    log_file_level        |-> None,
    log_rolling           |-> None,
    log_rolling_max_files |-> None ]

(* The startup_type vocabulary of the match in load_generic_state. *)
StartupTypes ==
  { "http_localhost", "unsafe_http", "https_acme", "https_only",
    "quinn_acme", "quinn", "quinn_only" }

(* Input values the application may put in a configuration. *)
StartupTypeInputs == StartupTypes \cup { "teleport", "HTTPS_ONLY" }
HostInputs == { None, Some("127.0.0.1"), Some("0.0.0.0") }
AcmeInputs == { None, Some("example.org") }
KeyInputs == { None, Some("certs/key.pem") }
CrtInputs == { None, Some("certs/crt.pem") }
LevelInputs == { None, Some("debug"), Some("verbose") }
FileLevelInputs == { None, Some("info"), Some("verbose") }
RollingInputs ==
  { None, Some("never"), Some("daily"), Some("hourly"), Some("minutely"),
    Some("weekly") }
MaxFilesInputs == { None, Some(3) }

(* Configurations that vary the deployment fields, logging as in Default. *)
VariantSetups ==
  { [ Default EXCEPT !.startup_type = t, !.server_host = h, !.acme_domain = a,
                     !.ssl_key_path = k, !.ssl_crt_path = c ] :
      t \in StartupTypes, h \in HostInputs, a \in AcmeInputs,
      k \in KeyInputs, c \in CrtInputs }

(* Configurations whose startup_type is outside the vocabulary. *)
UnknownSetups ==
  { [ Default EXCEPT !.startup_type = t, !.server_host = h ] :
      t \in StartupTypeInputs \ StartupTypes, h \in HostInputs }

(* Configurations without server_port, the deployment fields all given. *)
PortlessSetups ==
  { [ Default EXCEPT !.startup_type = t, !.server_host = h,
                     !.server_port = None,
                     !.acme_domain = Some("example.org"),
                     !.ssl_key_path = Some("certs/key.pem"),
                     !.ssl_crt_path = Some("certs/crt.pem") ] :
      t \in StartupTypes, h \in HostInputs }

(* Configurations that vary the logging fields, on a valid and on an
   unknown deployment. *)
LoggingSetups ==
  { [ Default EXCEPT !.startup_type = t, !.log_level = l,
                     !.log_file_level = f, !.log_rolling = r ] :
      t \in { "http_localhost", "teleport" }, l \in LevelInputs,
      f \in FileLevelInputs, r \in RollingInputs }

(* Configurations that vary the retention of the file sink. *)
RetentionSetups ==
  { [ Default EXCEPT !.log_file_level = Some("info"),
                     !.log_rolling_max_files = m ] : m \in MaxFilesInputs }

Setups ==
  VariantSetups \cup UnknownSetups \cup PortlessSetups \cup LoggingSetups
  \cup RetentionSetups

---------------------------------------------------------------------------
VARIABLES
  debug_assertions,  \* build profile: cfg!(debug_assertions)
  setup,             \* the GenericValues of the latest load_generic_state call
  result,            \* what that call returned (None before the first call)
  global_default,    \* the process-wide tracing subscriber, None until set
  file_appender,     \* the rolling file appender the latest call built
  calls,             \* number of load_generic_state calls so far
  server,            \* outcome of start_with_service
  cwd_file,          \* "{app_name}.yaml" in the working directory
  etc_file,          \* "/etc/{app_name}.yaml"
  opened,            \* the paths load_generic_config has passed to File::open
  lgc,               \* where load_generic_config is: idle, watching, returned
  config,            \* what load_generic_config returned (None before)
  port_file,         \* the file at server_port_achiever: Absent or its text
  writes,            \* number of changes made to port_file so far
  inotify,           \* events the watch has queued for the callback
  callback,          \* the watch library's thread inside the closure
  rx,                \* the buffer of the capacity-1 channel
  rx_dropped,        \* the receiver has been dropped
  watcher_pc,        \* where the watcher future is
  handled,           \* number of events the watcher future has received
  parsed_port,       \* the port the watcher future has parsed (None before)
  watches,           \* the paths registered with the RecommendedWatcher
  document,          \* the document load_generic_config has parsed
  migration,         \* the program at auto_migrate_bin: launches and child
  shutdown_task,     \* the task start spawns on shutdown_signal
  stop_requests,     \* number of stop_graceful calls made on the handle
  stops,             \* number of times the server began a graceful stop
  router,            \* the root router the application built (None before)
  response           \* the latest response the server produced (None before)

load_vars == << cwd_file, etc_file, opened, lgc, config, document >>
watch_vars == << port_file, writes, inotify, callback, rx, rx_dropped, watcher_pc, handled, parsed_port, watches >>
state_vars == << debug_assertions, setup, result, global_default, file_appender, calls, server >>

start_vars == << migration, shutdown_task, stop_requests, stops, router, response >>

vars == << state_vars, load_vars, watch_vars, start_vars >>

---------------------------------------------------------------------------
(* generic_setup.rs *)

(* The error messages of generic_setup.rs. *)
IncorrectLoggingLevel == "Incorrect logging level."
LoggingIsDisabled == "Logging is disabled"
IncorrectRotation ==
  "Incorrect level of log rotation. Choose one of the options: 'never', 'daily', 'hourly', 'minutely'."
FileLoggingFailed == "Failed to initialize logging to file!"
(* SetGlobalDefaultError, converted by the `?` after set_global_default. *)
AlreadySet == "a global default trace dispatcher has already been set"
ChooseHost == "Choose server's host, e.g. '0.0.0.0'."
ChooseAcme == "Choose ACME's domain!"
ChooseKey == "Choose SSL key path."
ChooseCrt == "Choose SSL cert path."
LocalhostOnly ==
  "Server will only listen '127.0.0.1' address because of 'http_localhost' startup variant. Consider to move to 'https_only' or 'quinn'."
UndeterminedDeployment ==
  "The server deployment method could not be determined. Read the documentation on the 'startup_variant' field."

match_log_level(log_level) ==
  IF is_some(log_level)
  THEN CASE unwrap(log_level) = "error" -> Ok("ERROR")
         [] unwrap(log_level) = "warn"  -> Ok("WARN")
         [] unwrap(log_level) = "info"  -> Ok("INFO")
         [] unwrap(log_level) = "debug" -> Ok("DEBUG")
         [] unwrap(log_level) = "trace" -> Ok("TRACE")
         [] OTHER -> Err(IncorrectLoggingLevel)
  ELSE IF debug_assertions
       THEN Ok("DEBUG")
       ELSE Err(LoggingIsDisabled)

(* A rotation mapping that falls back to never on an unknown string. *)
match_log_file_rolling_lenient(log_rolling) ==
  IF is_some(log_rolling)
  THEN CASE unwrap(log_rolling) = "daily"    -> Ok("DAILY")
         [] unwrap(log_rolling) = "hourly"   -> Ok("HOURLY")
         [] unwrap(log_rolling) = "minutely" -> Ok("MINUTELY")
         [] OTHER -> Ok("NEVER")
  ELSE Ok("NEVER")

match_log_file_rolling(log_rolling) ==
  IF is_some(log_rolling)
  THEN CASE unwrap(log_rolling) = "never"    -> Ok("NEVER")
         [] unwrap(log_rolling) = "daily"    -> Ok("DAILY")
         [] unwrap(log_rolling) = "hourly"   -> Ok("HOURLY")
         [] unwrap(log_rolling) = "minutely" -> Ok("MINUTELY")
         [] OTHER -> Err(IncorrectRotation)
  ELSE Ok("NEVER")


(* RollingFileAppender::builder()...build("logs"); NoAppender when the call
   built none. *)
NoAppender == [status |-> "none", rotation |-> "-", max_log_files |-> 0]
FailedAppender == [status |-> "failed", rotation |-> "-", max_log_files |-> 0]
RollingFileAppender(rotation, max_files) ==
  [status |-> "built", rotation |-> rotation, max_log_files |-> max_files]

(* registry().with(io_tracer).with(file_tracer): each layer is present or
   absent and carries its own LevelFilter. *)
registry(io_tracer, file_tracer) ==
  [io_tracer |-> io_tracer, file_tracer |-> file_tracer]

(* A set_global_default that replaces a subscriber already registered. *)
set_global_default_replacing(collector) ==
  [ result |-> Ok("()"), global_default |-> Some(collector) ]

(* tracing::subscriber::set_global_default(collector): the process-wide
   subscriber can be set once; a later call is refused and changes nothing. *)
set_global_default(collector) ==
  IF is_some(global_default)
  THEN [ result |-> Err(AlreadySet), global_default |-> global_default ]
  ELSE [ result |-> Ok("()"), global_default |-> Some(collector) ]

(* init_logging: the value returned, the file appender built on the way and
   the process-wide subscriber afterwards. logs_dir_ok is whether the
   appender could be built in "logs". *)
init_logging(log_level, log_file_level, log_rolling, log_rolling_max_files, logs_dir_ok) ==
  LET io_tracer == IF log_level.ok THEN Some(log_level.val) ELSE None
      wants_file == log_file_level.ok
      appender ==
        IF ~wants_file THEN NoAppender
        ELSE IF ~logs_dir_ok THEN FailedAppender
        ELSE RollingFileAppender(log_rolling,
                                 unwrap_or(log_rolling_max_files, 5))
      file_tracer == IF wants_file THEN Some(log_file_level.val) ELSE None
      guard == IF wants_file THEN Some("WorkerGuard") ELSE None
      collector == registry(io_tracer, file_tracer)
      registered == set_global_default(collector)
  IN  IF appender.status = "failed"
      THEN [ result |-> Err(FileLoggingFailed),
             file_appender |-> appender,
             global_default |-> global_default ]
      ELSE IF ~registered.result.ok
      THEN [ result |-> registered.result,
             file_appender |-> appender,
             global_default |-> registered.global_default ]
      ELSE [ result |-> Ok(guard),
             file_appender |-> appender,
             global_default |-> registered.global_default ]

(* An http_localhost arm that lets the loopback address through. *)
http_localhost_arm_loopback_allowed(data) ==
  IF is_some(data.server_host) /\ data.server_host # Some("127.0.0.1")
  THEN Err(LocalhostOnly)
  ELSE Ok("HttpLocalhost")

(* "http_localhost" => ... *)
http_localhost_arm(data) ==
  IF is_some(data.server_host)
  THEN Err(LocalhostOnly)
  ELSE Ok("HttpLocalhost")

(* "unsafe_http" => ... *)
unsafe_http_arm(data) ==
  IF is_none(data.server_host) THEN Err(ChooseHost)
  ELSE Ok("UnsafeHttp")

(* "https_acme" and "quinn_acme" => ...: the same two checks, then the
   variant of the arm. *)
acme_arm(data, variant) ==
  IF is_none(data.server_host) THEN Err(ChooseHost)
  ELSE IF is_none(data.acme_domain) THEN Err(ChooseAcme)
  ELSE Ok(variant)

(* A static TLS arm that forgets the certificate path. *)
static_tls_arm_no_crt_check(data, variant) ==
  IF is_none(data.server_host) THEN Err(ChooseHost)
  ELSE IF is_none(data.ssl_key_path) THEN Err(ChooseKey)
  ELSE Ok(variant)

(* "https_only", "quinn" and "quinn_only" => ...: the same three checks,
   then the variant of the arm. *)
static_tls_arm(data, variant) ==
  IF is_none(data.server_host) THEN Err(ChooseHost)
  ELSE IF is_none(data.ssl_key_path) THEN Err(ChooseKey)
  ELSE IF is_none(data.ssl_crt_path) THEN Err(ChooseCrt)
  ELSE Ok(variant)

(* A match that also takes the upper-case spelling of https_only. *)
startup_variant_any_case(data) ==
  CASE data.startup_type = "http_localhost" -> http_localhost_arm(data)
    [] data.startup_type = "unsafe_http" -> unsafe_http_arm(data)
    [] data.startup_type = "https_acme" -> acme_arm(data, "HttpsAcme")
    [] data.startup_type \in { "https_only", "HTTPS_ONLY" } ->
         static_tls_arm(data, "HttpsOnly")
    [] data.startup_type = "quinn_acme" -> acme_arm(data, "QuinnAcme")
    [] data.startup_type = "quinn" -> static_tls_arm(data, "Quinn")
    [] data.startup_type = "quinn_only" -> static_tls_arm(data, "QuinnOnly")
    [] OTHER -> Err(UndeterminedDeployment)

(* The match on startup_type in load_generic_state. *)
startup_variant(data) ==
  CASE data.startup_type = "http_localhost" -> http_localhost_arm(data)
    [] data.startup_type = "unsafe_http" -> unsafe_http_arm(data)
    [] data.startup_type = "https_acme" -> acme_arm(data, "HttpsAcme")
    [] data.startup_type = "https_only" -> static_tls_arm(data, "HttpsOnly")
    [] data.startup_type = "quinn_acme" -> acme_arm(data, "QuinnAcme")
    [] data.startup_type = "quinn" -> static_tls_arm(data, "Quinn")
    [] data.startup_type = "quinn_only" -> static_tls_arm(data, "QuinnOnly")
    [] OTHER -> Err(UndeterminedDeployment)

(* load_generic_state: the value returned together with the effects of the
   init_logging call it makes. *)
load_generic_state(data, logs_dir_ok) ==
  LET log_level == match_log_level(data.log_level)
      log_file_level == match_log_level(data.log_file_level)
      log_rolling == match_log_file_rolling(data.log_rolling)
      logging == init_logging(log_level, log_file_level, log_rolling.val,
                              data.log_rolling_max_files, logs_dir_ok)
      variant == startup_variant(data)
  IN  IF ~log_rolling.ok
      THEN [ result |-> log_rolling,
             file_appender |-> NoAppender,
             global_default |-> global_default ]
      ELSE IF ~logging.result.ok
      THEN logging
      ELSE IF ~variant.ok
      THEN [ logging EXCEPT !.result = variant ]
      ELSE [ logging EXCEPT !.result =
               Ok([ startup_variant |-> variant.val,
                    _file_log_guard |-> logging.result.val ]) ]

---------------------------------------------------------------------------
(* generic_setup.rs: watcher and load_generic_config *)

(* The text of a file is a sequence of one-character strings. *)
Whitespace == { " ", "\n", "\t", "\r" }
DigitVal == "0" :> 0 @@ "1" :> 1 @@ "2" :> 2 @@ "3" :> 3 @@ "4" :> 4 @@ "5" :> 5 @@ "6" :> 6 @@ "7" :> 7 @@ "8" :> 8 @@ "9" :> 9
u16_MAX == 65535

(* str::trim *)
RECURSIVE trim_start(_)
trim_start(s) ==
  IF s # <<>> /\ Head(s) \in Whitespace THEN trim_start(Tail(s)) ELSE s

RECURSIVE trim_end(_)
trim_end(s) ==
  IF s # <<>> /\ s[Len(s)] \in Whitespace
  THEN trim_end(SubSeq(s, 1, Len(s) - 1))
  ELSE s

trim(s) == trim_end(trim_start(s))

(* A parser that keeps the low 16 bits instead of refusing the overflow. *)
RECURSIVE parse_digits_wrapping(_, _)
parse_digits_wrapping(s, acc) ==
  IF s = <<>> THEN [ok |-> TRUE, val |-> acc]
  ELSE IF Head(s) \notin DOMAIN DigitVal
  THEN [ok |-> FALSE, kind |-> "InvalidDigit"]
  ELSE parse_digits_wrapping(Tail(s), (acc * 10 + DigitVal[Head(s)]) % (u16_MAX + 1))

(* The digit loop of u16::from_str: the first character outside 0..9 or the
   first step past u16::MAX ends it with an error. *)
RECURSIVE parse_digits(_, _)
parse_digits(s, acc) ==
  IF s = <<>> THEN [ok |-> TRUE, val |-> acc]
  ELSE IF Head(s) \notin DOMAIN DigitVal
  THEN [ok |-> FALSE, kind |-> "InvalidDigit"]
  ELSE IF acc * 10 + DigitVal[Head(s)] > u16_MAX
  THEN [ok |-> FALSE, kind |-> "PosOverflow"]
  ELSE parse_digits(Tail(s), acc * 10 + DigitVal[Head(s)])

(* str::parse::<u16>: an optional "+", then at least one digit. *)
parse_u16(s) ==
  IF s = <<>> THEN [ok |-> FALSE, kind |-> "Empty"]
  ELSE LET digits == IF Head(s) = "+" THEN Tail(s) ELSE s
       IN  IF digits = <<>> THEN [ok |-> FALSE, kind |-> "InvalidDigit"]
           ELSE parse_digits(digits, 0)

(* std::fs::read_to_string on the watched path. *)
read_to_string(file) ==
  IF is_none(file) THEN [ok |-> FALSE, kind |-> "NotFound"]
  ELSE [ok |-> TRUE, val |-> unwrap(file)]

(* notify::Event kinds and the two predicates the watcher asks of them. *)
EventKinds == { "Create", "Modify", "Access" }
is_modify(kind) == kind = "Modify"
is_create(kind) == kind = "Create"
Event(kind) == [ok |-> TRUE, val |-> [kind |-> kind]]
(* A notify::Error handed to the callback, with its to_string(). *)
WatchErrorText == "Too many open files"
PathNotFoundText == "No path was found."
NotifyError(text) == [ok |-> FALSE, text |-> text]

(* A loop body whose Err arm logs and goes on receiving. *)
watcher_body_ignoring_errors(res, file) ==
  IF res.ok /\ (is_modify(res.val.kind) \/ is_create(res.val.kind))
  THEN LET text == read_to_string(file)
           parsed == IF text.ok THEN parse_u16(trim(text.val)) ELSE text
       IN  IF parsed.ok
           THEN [next |-> "unwatch", port |-> Some(parsed.val)]
           ELSE [next |-> "recv", port |-> None]
  ELSE [next |-> "recv", port |-> None]

(* A loop body that reads the file on every Ok event, whatever its kind. *)
watcher_body_any_kind(res, file) ==
  IF res.ok
  THEN LET text == read_to_string(file)
           parsed == IF text.ok THEN parse_u16(trim(text.val)) ELSE text
       IN  IF parsed.ok
           THEN [next |-> "unwatch", port |-> Some(parsed.val)]
           ELSE [next |-> "recv", port |-> None]
  ELSE [next |-> "return", port |-> None]

(* One turn of the `while let Some(res) = rx.recv().await` loop of watcher:
   what the body does with res when the watched file is `file`. *)
watcher_body(res, file) ==
  IF res.ok /\ (is_modify(res.val.kind) \/ is_create(res.val.kind))
  THEN LET text == read_to_string(file)
           parsed == IF text.ok THEN parse_u16(trim(text.val)) ELSE text
       IN  IF parsed.ok
           THEN [next |-> "unwatch", port |-> Some(parsed.val)]
           ELSE [next |-> "recv", port |-> None]
  ELSE IF ~res.ok
  THEN [next |-> "return", port |-> None]
  ELSE [next |-> "recv", port |-> None]

(* The error messages of load_generic_config. *)
ConfigNotFound == "The server configuration could not be found."
ConfigReadFailed == "Failed to read the contents of the server configuration file."
ConfigParseFailed == "Failed to parse the contents of the server configuration file."
OapiNameMissing == "The API name for OAPI is not specified."
OapiVerMissing == "The API version for OAPI is not specified."
OapiAddrMissing == "The path to OAPI was not specified."

(* A configuration file on disk: what File::open gives for its path, whether
   read_to_string then succeeds, and what serde_yaml makes of the text. *)
MissingFile == [open |-> "NotFound", readable |-> FALSE, yaml |-> None]
DeniedFile == [open |-> "PermissionDenied", readable |-> FALSE, yaml |-> None]
UnreadableFile == [open |-> "Ok", readable |-> FALSE, yaml |-> None]
MalformedFile == [open |-> "Ok", readable |-> TRUE, yaml |-> None]
Document(values) == [open |-> "Ok", readable |-> TRUE, yaml |-> Some(values)]

(* A resolution that goes to /etc only when the first path does not exist. *)
open_config_only_if_missing(cwd, etc) ==
  IF cwd.open = "NotFound"
  THEN [file |-> etc, opened |-> { "cwd", "etc" }]
  ELSE [file |-> cwd, opened |-> { "cwd" }]

(* File::open of the working-directory path and, if that is an error of any
   kind, of the /etc path. *)
open_config(cwd, etc) ==
  IF cwd.open # "Ok"
  THEN [file |-> etc, opened |-> { "cwd", "etc" }]
  ELSE [file |-> cwd, opened |-> { "cwd" }]

(* Checks that do not ask for the mount path. *)
oapi_checks_without_addr(values) ==
  IF values.allow_oapi_access = Some(TRUE)
  THEN IF is_none(values.oapi_name) THEN Err(OapiNameMissing)
       ELSE IF is_none(values.oapi_ver) THEN Err(OapiVerMissing)
       ELSE Ok(values)
  ELSE Ok(values)

(* The three presence checks behind allow_oapi_access. *)
oapi_checks(values) ==
  IF values.allow_oapi_access = Some(TRUE)
  THEN IF is_none(values.oapi_name) THEN Err(OapiNameMissing)
       ELSE IF is_none(values.oapi_ver) THEN Err(OapiVerMissing)
       ELSE IF is_none(values.oapi_api_addr) THEN Err(OapiAddrMissing)
       ELSE Ok(values)
  ELSE Ok(values)

(* A store that leaves a port given in the document alone. *)
achieve_port_unless_given(values, watched) ==
  IF is_some(values.server_port) THEN values
  ELSE [values EXCEPT !.server_port = Some(watched)]

(* data.server_port = Some(port), with the port the watcher returned. *)
achieve_port(values, watched) == [values EXCEPT !.server_port = Some(watched)]

(* load_generic_config up to the port watcher: the document it resolves,
   reads, parses and checks, with the paths it opened on the way. *)
load_document(cwd, etc) ==
  LET found == open_config(cwd, etc)
      file == found.file
      parsed ==
        IF file.open # "Ok" THEN Err(ConfigNotFound)
        ELSE IF ~file.readable THEN Err(ConfigReadFailed)
        ELSE IF is_none(file.yaml) THEN Err(ConfigParseFailed)
        ELSE oapi_checks(unwrap(file.yaml))
  IN  [result |-> parsed, opened |-> found.opened]

---------------------------------------------------------------------------
(* startup.rs *)

NotStarted == [status |-> "not_started", listen |-> None]
Panicked == [status |-> "panicked", listen |-> None]
CertError == [status |-> "error", listen |-> None]
SpawnError == [status |-> "spawn_error", listen |-> None]
BindPanicked == [status |-> "bind_panicked", listen |-> None]
Serving(host, port) == [status |-> "serving", listen |-> Some(<<host, port>>)]

(* The Alt-Svc value h3_header formats: h3=":{port}"; ma=2592000. *)
AltSvc(server_port) == [h3 |-> server_port, ma |-> 2592000]

(* h3_header on a depot holding values of the types in depot, the
   GenericValues among them being app_config: the port it puts in the
   header, 443 without a GenericValues, a panic on a None server_port. *)
h3_header(depot, app_config) ==
  IF "GenericValues" \in depot
  THEN IF is_none(app_config.server_port)
       THEN [status |-> "panicked", alt_svc |-> None]
       ELSE [status |-> "ok", alt_svc |-> Some(AltSvc(unwrap(app_config.server_port)))]
  ELSE [status |-> "ok", alt_svc |-> Some(AltSvc(443))]

(* The hoops both root routers add for the QUIC variants. *)
h3_hoops(app_state) ==
  IF app_state.startup_variant \in { "QuinnAcme", "Quinn", "QuinnOnly" }
  THEN << "h3_header" >>
  ELSE << >>

(* get_root_router_autoinject(app_state, app_config: T): the injected values
   are stored under their own types, GenericServerState and T. *)
get_root_router_autoinject(app_state, T) ==
  [ hoops |-> << "inject" >> \o h3_hoops(app_state),
    injects |-> { "GenericServerState", T } ]

(* get_root_router(app_state) *)
get_root_router(app_state) ==
  [ hoops |-> h3_hoops(app_state), injects |-> {} ]

(* Command::new(bin).spawn() for auto_migrate_bin. *)
spawn_migration(app_config, spawn_ok) ==
  IF is_none(app_config.auto_migrate_bin) THEN "none"
  ELSE IF spawn_ok THEN "running"
  ELSE "failed"

(* listener.bind().await: the acceptor, or a panic when the address cannot
   be bound. *)
bind(host, server_port, bind_ok) ==
  IF bind_ok THEN Serving(host, server_port) ELSE BindPanicked

(* A stop request that also restarts the stop of a server already stopped. *)
stop_graceful_again(srv) ==
  IF srv.status \in { "serving", "stopped" }
  THEN [srv EXCEPT !.status = "stopping"]
  ELSE srv

(* handle.stop_graceful(None): the first request on a serving server starts
   the graceful stop; on a server stopping or stopped it changes nothing. *)
stop_graceful(srv) ==
  IF srv.status = "serving" THEN [srv EXCEPT !.status = "stopping"] ELSE srv

(* The match on startup_variant in start_with_service: every Option it
   unwraps, the certificate and key it loads with `?`, and the address it
   hands to the listener, after the launch of auto_migrate_bin and the
   unwraps of the API documentation block. certs_ok is whether the key pair
   could be loaded, bind_ok whether the address could be bound, spawn_ok
   whether the program could be launched. *)
start_with_service(app_state, app_config, certs_ok, bind_ok, spawn_ok) ==
  LET v == app_state.startup_variant
      port == app_config.server_port
      host == app_config.server_host
      static_tls == v \in { "HttpsOnly", "Quinn", "QuinnOnly" }
      acme == v \in { "HttpsAcme", "QuinnAcme" }
  IN  IF spawn_migration(app_config, spawn_ok) = "failed"
      THEN SpawnError
      ELSE IF app_config.allow_oapi_access = Some(TRUE)
              /\ ( is_none(app_config.oapi_name) \/ is_none(app_config.oapi_ver)
                   \/ is_none(app_config.oapi_api_addr) )
      THEN Panicked
      ELSE IF v = "HttpLocalhost"
      THEN IF is_none(port) THEN Panicked
           ELSE bind("127.0.0.1", unwrap(port), bind_ok)
      ELSE IF static_tls /\ ( is_none(app_config.ssl_crt_path)
                              \/ is_none(app_config.ssl_key_path) )
      THEN Panicked
      ELSE IF static_tls /\ ~certs_ok
      THEN CertError
      ELSE IF is_none(host) \/ is_none(port)
      THEN Panicked
      ELSE IF acme /\ is_none(app_config.acme_domain)
      THEN Panicked
      ELSE bind(unwrap(host), unwrap(port), bind_ok)

---------------------------------------------------------------------------
(* The embedding application *)

(* The process before load_generic_state has been called. *)
InitState ==
  /\ setup = Default
  /\ result = None
  /\ global_default = None
  /\ file_appender = NoAppender
  /\ calls = 0
  /\ server = NotStarted

(* load_generic_config not called, no watcher built. *)
InitLoad ==
  /\ opened = {}
  /\ lgc = "idle"
  /\ config = None
  /\ document = None
  /\ writes = 0
  /\ inotify = <<>>
  /\ callback = [pc |-> "idle", res |-> None]
  /\ rx = <<>>
  /\ rx_dropped = FALSE
  /\ watcher_pc = "idle"
  /\ handled = 0
  /\ parsed_port = None
  /\ watches = {}

(* Nothing launched, started, stopped or routed. *)
InitStart ==
  /\ migration = [spawns |-> 0, child |-> "none"]
  /\ shutdown_task = "none"
  /\ stop_requests = 0
  /\ stops = 0
  /\ router = None
  /\ response = None

(* The application builds its GenericValues itself: no file is involved. *)
Init ==
  /\ debug_assertions \in BOOLEAN
  /\ InitState
  /\ cwd_file = MissingFile
  /\ etc_file = MissingFile
  /\ port_file = None
  /\ InitLoad
  /\ InitStart

(* let state = load_generic_state(&setup).await *)
LoadGenericState(data, logs_dir_ok) ==
  /\ calls < MaxCalls
  /\ server = NotStarted
  /\ LET out == load_generic_state(data, logs_dir_ok)
     IN  /\ result' = Some(out.result)
         /\ file_appender' = out.file_appender
         /\ global_default' = out.global_default
  /\ setup' = data
  /\ calls' = calls + 1
  /\ UNCHANGED << debug_assertions, server, load_vars, watch_vars, start_vars >>

(* What start_with_service does to the process: the child it launches and
   the server it leaves. *)
Launch(certs_ok, bind_ok, spawn_ok) ==
  /\ server = NotStarted
  /\ result # None
  /\ unwrap(result).ok
  /\ server' = start_with_service(unwrap(result).val, setup, certs_ok, bind_ok, spawn_ok)
  /\ migration' = IF spawn_migration(setup, spawn_ok) = "running"
                  THEN [spawns |-> migration.spawns + 1, child |-> "running"]
                  ELSE migration

(* start_with_service(state, &setup, service).await, also reached through
   start_clean: the caller keeps the handle and no task is spawned. *)
StartWithService(certs_ok, bind_ok, spawn_ok) ==
  /\ Launch(certs_ok, bind_ok, spawn_ok)
  /\ UNCHANGED << debug_assertions, setup, result, global_default,
                  file_appender, calls, load_vars, watch_vars,
                  shutdown_task, stop_requests, stops, router, response >>

(* What building the appender in "logs" can come to: it is attempted only
   when the file level parsed. *)
LogsDirOutcomes(data) ==
  IF match_log_level(data.log_file_level).ok THEN BOOLEAN ELSE { TRUE }

Next ==
  \/ \E data \in Setups :
       \E logs_dir_ok \in LogsDirOutcomes(data) :
         LoadGenericState(data, logs_dir_ok)
  \/ \E certs_ok, bind_ok \in BOOLEAN : StartWithService(certs_ok, bind_ok, TRUE)

Spec == Init /\ [][Next]_vars

---------------------------------------------------------------------------
(* The embedding application that loads its configuration from disk:
   load_generic_config, then load_generic_state and start on what it
   returned, while another process writes the port file. *)

(* How many times the port file changes or its watch reports an error. *)
MaxWrites == 3

(* Texts written to the port file. *)
PortTexts ==
  { <<"a", "b", "c">>, <<>>, <<"-", "1">>, <<"6", "5", "5", "3", "6">>,
    <<"8", "0", "8", "0", "\n">>, <<" ", "4", "4", "3">> }

(* The events the watch reports for one write. *)
Bursts == { <<"Modify">>, <<"Create", "Modify", "Access">> }

(* Documents the configuration files may hold. *)
PlainDocument == [Default EXCEPT !.server_port = Some(8801)]
AchieverDocument ==
  [Default EXCEPT !.server_port = Some(8801), !.server_port_achiever = Some("port.txt")]
OapiDocuments ==
  { [Default EXCEPT !.allow_oapi_access = a, !.oapi_name = n, !.oapi_ver = v,
                    !.oapi_api_addr = m, !.server_port_achiever = w] :
      a \in { Some(TRUE) }, n \in { None, Some("Kit API") },
      v \in { None, Some("1.0") }, m \in { None, Some("/api") },
      w \in { None, Some("port.txt") } }
  \cup
  { [Default EXCEPT !.allow_oapi_access = a, !.oapi_name = n] :
      a \in { None, Some(FALSE) }, n \in { None, Some("Kit API") } }

(* The two configuration files as the call finds them. *)
ConfigFiles ==
  ( { MissingFile, DeniedFile, UnreadableFile, MalformedFile,
      Document(PlainDocument) }
    \X { MissingFile, DeniedFile, MalformedFile, Document(AchieverDocument) } )
  \cup
  ( ( { Document(AchieverDocument) } \cup { Document(d) : d \in OapiDocuments } )
    \X { Document(PlainDocument) } )

(* What RecommendedWatcher::new and watcher.watch can come to. *)
WatchOutcomes(file) ==
  IF is_none(file) THEN { NotifyError(PathNotFoundText) }
  ELSE { Event("Any"), NotifyError(WatchErrorText) }

InitConfig ==
  /\ debug_assertions = TRUE
  /\ InitState
  /\ \E files \in ConfigFiles : cwd_file = files[1] /\ etc_file = files[2]
  /\ port_file \in { None, Some(<<"a", "b", "c">>), Some(<<"8", "0", "8", "0", "\n">>) }
  /\ InitLoad
  /\ InitStart

(* load_generic_config returns r. *)
Return(r) ==
  /\ config' = Some(r)
  /\ lgc' = "returned"

(* load_generic_config(app_name), up to its return or to the first await of
   the watcher on rx.recv(). *)
LoadGenericConfig(watch) ==
  /\ lgc = "idle"
  /\ LET out == load_document(cwd_file, etc_file)
     IN  /\ opened' = out.opened
         /\ IF ~out.result.ok
            THEN /\ Return(out.result)
                 /\ UNCHANGED << document, watcher_pc, watches >>
            ELSE /\ document' = Some(out.result.val)
                 /\ IF is_none(out.result.val.server_port_achiever)
                    THEN /\ Return(out.result)
                         /\ UNCHANGED << watcher_pc, watches >>
                    ELSE IF ~watch.ok
                    THEN /\ Return(Err(watch.text))
                         /\ UNCHANGED << watcher_pc, watches >>
                    ELSE /\ lgc' = "watching"
                         /\ watcher_pc' = "recv"
                         /\ watches' = { "port.txt" }
                         /\ UNCHANGED config
  /\ UNCHANGED << state_vars, start_vars, cwd_file, etc_file, port_file, writes, inotify,
                  callback, rx, rx_dropped, handled, parsed_port >>

(* Another process writes text to the port file; a registered watch queues
   the events of the write for the callback. *)
WriteFile(text, burst) ==
  /\ lgc # "idle"
  /\ writes < MaxWrites
  /\ writes' = writes + 1
  /\ port_file' = Some(text)
  /\ inotify' = IF "port.txt" \in watches
                THEN inotify \o [i \in 1..Len(burst) |-> Event(burst[i])]
                ELSE inotify
  /\ UNCHANGED << state_vars, start_vars, load_vars, callback, rx, rx_dropped, watcher_pc,
                  handled, parsed_port, watches >>

(* The watch itself fails: the library hands an Err to the callback. *)
WatchFails ==
  /\ "port.txt" \in watches
  /\ writes < MaxWrites
  /\ writes' = writes + 1
  /\ inotify' = Append(inotify, NotifyError(WatchErrorText))
  /\ UNCHANGED << state_vars, start_vars, load_vars, port_file, callback, rx, rx_dropped,
                  watcher_pc, handled, parsed_port, watches >>

(* tx.blocking_send(res).unwrap() in the library's thread: it panics once the
   receiver is gone, puts res in the free slot, or stays blocked on it. *)
blocking_send(res) ==
  IF rx_dropped
  THEN /\ callback' = [pc |-> "panicked", res |-> None]
       /\ UNCHANGED rx
  ELSE IF Len(rx) < 1
  THEN /\ callback' = [pc |-> "idle", res |-> None]
       /\ rx' = Append(rx, res)
  ELSE /\ callback' = [pc |-> "sending", res |-> Some(res)]
       /\ UNCHANGED rx

(* The library's thread takes the next event and calls the closure. *)
Callback ==
  /\ callback.pc = "idle"
  /\ inotify # <<>>
  /\ inotify' = Tail(inotify)
  /\ blocking_send(Head(inotify))
  /\ UNCHANGED << state_vars, start_vars, load_vars, port_file, writes, rx_dropped,
                  watcher_pc, handled, parsed_port, watches >>

(* A blocked blocking_send is woken by a free slot or by the receiver's drop. *)
BlockingSendWakes ==
  /\ callback.pc = "sending"
  /\ rx_dropped \/ Len(rx) < 1
  /\ blocking_send(unwrap(callback.res))
  /\ UNCHANGED << state_vars, start_vars, load_vars, port_file, writes, inotify, rx_dropped,
                  watcher_pc, handled, parsed_port, watches >>

(* The watcher is dropped when the future returns: its thread, once out of the
   closure, ends. *)
WatcherDropped ==
  /\ watcher_pc = "done"
  /\ callback.pc = "idle"
  /\ callback' = [pc |-> "exited", res |-> None]
  /\ watches' = {}
  /\ UNCHANGED << state_vars, start_vars, load_vars, port_file, writes, inotify, rx,
                  rx_dropped, watcher_pc, handled, parsed_port >>

(* rx.recv().await yields res and the loop body runs on it. *)
Recv ==
  /\ watcher_pc = "recv"
  /\ rx # <<>>
  /\ rx' = Tail(rx)
  /\ handled' = handled + 1
  /\ LET res == Head(rx)
         step == watcher_body(res, port_file)
     IN  /\ parsed_port' = step.port
         /\ IF step.next = "return"
            THEN /\ watcher_pc' = "done"
                 /\ rx_dropped' = TRUE
                 /\ Return(Err(res.text))
            ELSE /\ watcher_pc' = step.next
                 /\ UNCHANGED << rx_dropped, config, lgc >>
  /\ UNCHANGED << state_vars, start_vars, cwd_file, etc_file, opened, document, port_file,
                  writes, inotify, callback, watches >>

(* watcher.unwatch(path) is answered by the library's thread, which has to be
   out of the closure to do so; the watcher then returns the port and
   load_generic_config stores it and returns the configuration. *)
Unwatch ==
  /\ watcher_pc = "unwatch"
  /\ callback.pc = "idle"
  /\ watches' = {}
  /\ watcher_pc' = "done"
  /\ rx_dropped' = TRUE
  /\ rx' = <<>>
  /\ Return(Ok(achieve_port(unwrap(document), unwrap(parsed_port))))
  /\ UNCHANGED << state_vars, start_vars, cwd_file, etc_file, opened, document, port_file,
                  writes, inotify, callback, handled, parsed_port >>

NextConfig ==
  \/ \E watch \in WatchOutcomes(port_file) : LoadGenericConfig(watch)
  \/ \E text \in PortTexts : \E burst \in Bursts : WriteFile(text, burst)
  \/ WatchFails
  \/ Callback
  \/ BlockingSendWakes
  \/ WatcherDropped
  \/ Recv
  \/ Unwatch
  \/ /\ lgc = "returned"
     /\ unwrap(config).ok
     /\ LoadGenericState(unwrap(config).val, TRUE)
  \/ \E certs_ok, bind_ok \in BOOLEAN : StartWithService(certs_ok, bind_ok, TRUE)

SpecConfig == InitConfig /\ [][NextConfig]_vars

---------------------------------------------------------------------------
(* The embedding application that builds a root router, starts the server
   and stops it: start with its Ctrl+C task, clones of the handle held by
   the caller, the program at auto_migrate_bin, and responses. *)

(* How many times the caller asks its clones of the handle to stop. *)
MaxCallerStops == 2

(* One valid configuration of each deployment, with and without a program
   to launch. *)
StartSetups ==
  { [ Default EXCEPT !.startup_type = t,
                     !.server_host = IF t = "http_localhost" THEN None ELSE Some("0.0.0.0"),
                     !.server_port = Some(8443),
                     !.acme_domain = Some("example.org"),
                     !.ssl_key_path = Some("certs/key.pem"),
                     !.ssl_crt_path = Some("certs/crt.pem"),
                     !.auto_migrate_bin = b ] :
      t \in StartupTypes, b \in { None, Some("bin/migrate") } }

(* The type the application's configuration is injected as: its own struct
   implementing GenericSetup. *)
SetupTypes == { "Setup" }

(* Values the application itself may have put in the depot ahead of the
   root router's hoops. *)
AppInjects == { {}, { "GenericValues" } }

(* get_root_router(&state) or get_root_router_autoinject(&state, setup) *)
GetRootRouter(built, app_injects) ==
  /\ server = NotStarted
  /\ result # None
  /\ unwrap(result).ok
  /\ router = None
  /\ router' = Some([built EXCEPT !.injects = @ \cup app_injects])
  /\ UNCHANGED << state_vars, load_vars, watch_vars, migration, shutdown_task,
                  stop_requests, stops, response >>

(* start(state, &setup, router).await: start_clean, and on its Ok the task
   that waits in shutdown_signal. *)
Start(certs_ok, bind_ok, spawn_ok) ==
  /\ Launch(certs_ok, bind_ok, spawn_ok)
  /\ shutdown_task' = IF server'.status = "serving" THEN "waiting" ELSE shutdown_task
  /\ UNCHANGED << debug_assertions, setup, result, global_default,
                  file_appender, calls, load_vars, watch_vars,
                  stop_requests, stops, router, response >>

(* One stop_graceful call on a clone of the handle. *)
StopRequest ==
  /\ server' = stop_graceful(server)
  /\ stops' = IF server'.status # server.status THEN stops + 1 ELSE stops
  /\ stop_requests' = stop_requests + 1

(* shutdown_signal: ctrl_c().await.unwrap(), then handle.stop_graceful(None).
   ctrl_c_ok is whether the signal could be listened for. *)
ShutdownSignal(ctrl_c_ok) ==
  /\ shutdown_task = "waiting"
  /\ IF ctrl_c_ok
     THEN /\ StopRequest
          /\ shutdown_task' = "done"
     ELSE /\ shutdown_task' = "panicked"
          /\ UNCHANGED << server, stops, stop_requests >>
  /\ UNCHANGED << debug_assertions, setup, result, global_default,
                  file_appender, calls, load_vars, watch_vars, migration,
                  router, response >>

(* A trigger of the caller fires: stop_graceful on its clone of the handle. *)
CallerStop ==
  /\ server.status \in { "serving", "stopping", "stopped" }
  /\ stop_requests - (IF shutdown_task = "done" THEN 1 ELSE 0) < MaxCallerStops
  /\ StopRequest
  /\ UNCHANGED << debug_assertions, setup, result, global_default,
                  file_appender, calls, load_vars, watch_vars, migration,
                  shutdown_task, router, response >>

(* The work in flight has finished: the server future returns. *)
ServerStops ==
  /\ server.status = "stopping"
  /\ server' = [server EXCEPT !.status = "stopped"]
  /\ UNCHANGED << debug_assertions, setup, result, global_default,
                  file_appender, calls, load_vars, watch_vars, start_vars >>

(* The launched program ends with some exit status; nothing waits for it. *)
MigrationExits(code) ==
  /\ migration.child = "running"
  /\ migration' = [migration EXCEPT !.child = code]
  /\ UNCHANGED << state_vars, load_vars, watch_vars, shutdown_task,
                  stop_requests, stops, router, response >>

(* The server answers a request through the root router's hoops. *)
Respond ==
  /\ server.status = "serving"
  /\ router # None
  /\ response = None
  /\ response' =
       IF \E i \in DOMAIN unwrap(router).hoops : unwrap(router).hoops[i] = "h3_header"
       THEN Some(h3_header(unwrap(router).injects, setup))
       ELSE Some([status |-> "ok", alt_svc |-> None])
  /\ UNCHANGED << state_vars, load_vars, watch_vars, migration, shutdown_task,
                  stop_requests, stops, router >>

NextStart ==
  \/ \E d \in StartSetups : LoadGenericState(d, TRUE)
  \/ \E T \in SetupTypes : \E app_injects \in AppInjects :
       GetRootRouter(get_root_router_autoinject(unwrap(result).val, T), app_injects)
  \/ \E app_injects \in AppInjects :
       GetRootRouter(get_root_router(unwrap(result).val), app_injects)
  \/ \E certs_ok, bind_ok, spawn_ok \in BOOLEAN : Start(certs_ok, bind_ok, spawn_ok)
  \/ \E certs_ok, bind_ok, spawn_ok \in BOOLEAN : StartWithService(certs_ok, bind_ok, spawn_ok)
  \/ \E ctrl_c_ok \in BOOLEAN : ShutdownSignal(ctrl_c_ok)
  \/ CallerStop
  \/ ServerStops
  \/ \E code \in { "exited 0", "exited 1" } : MigrationExits(code)
  \/ Respond

SpecStart == Init /\ [][NextStart]_vars

---------------------------------------------------------------------------
(* Properties *)

Called == result # None
Returned == unwrap(result)
Failed == Called /\ ~Returned.ok
FailedWith(text) == Failed /\ Returned.err.error_text = text
Succeeded == Called /\ Returned.ok

(* The errors of the logging stage and of the variant stage. *)
LoggingErrorTexts == { IncorrectRotation, FileLoggingFailed, AlreadySet }
ValidationErrorTexts ==
  { ChooseHost, ChooseAcme, ChooseKey, ChooseCrt, LocalhostOnly,
    UndeterminedDeployment }
FailedInLogging == Failed /\ Returned.err.error_text \in LoggingErrorTexts
FailedInValidation ==
  Failed /\ Returned.err.error_text \in ValidationErrorTexts

(* The variant table: the fields each startup type requires, the variant it
   selects and the error that reports a missing field. *)
RequiredFields(t) ==
  CASE t = "http_localhost" -> {}
    [] t = "unsafe_http" -> { "server_host" }
    [] t \in { "https_acme", "quinn_acme" } -> { "server_host", "acme_domain" }
    [] t \in { "https_only", "quinn", "quinn_only" } ->
         { "server_host", "ssl_key_path", "ssl_crt_path" }
VariantOf(t) ==
  CASE t = "http_localhost" -> "HttpLocalhost"
    [] t = "unsafe_http" -> "UnsafeHttp"
    [] t = "https_acme" -> "HttpsAcme"
    [] t = "https_only" -> "HttpsOnly"
    [] t = "quinn_acme" -> "QuinnAcme"
    [] t = "quinn" -> "Quinn"
    [] t = "quinn_only" -> "QuinnOnly"
MissingFieldText(f) ==
  CASE f = "server_host" -> ChooseHost
    [] f = "acme_domain" -> ChooseAcme
    [] f = "ssl_key_path" -> ChooseKey
    [] f = "ssl_crt_path" -> ChooseCrt
MissingFields(data) ==
  { f \in RequiredFields(data.startup_type) : is_none(data[f]) }
HostAllowed(data) ==
  data.startup_type = "http_localhost" => is_none(data.server_host)

(* C1: for each of the seven startup types, a call of load_generic_state
   whose logging stage succeeded returns exactly the variant of the table
   when the required fields are present (and no host for http_localhost),
   and the missing-field error of the field when exactly one required field
   is absent. *)
C1_MinimalFieldSetResolves ==
  ( Called /\ setup.startup_type \in StartupTypes /\ ~FailedInLogging ) =>
    /\ ( MissingFields(setup) = {} /\ HostAllowed(setup) ) =>
         /\ Returned.ok
         /\ Returned.val.startup_variant = VariantOf(setup.startup_type)
    /\ \A f \in RequiredFields(setup.startup_type) :
         MissingFields(setup) = { f } => FailedWith(MissingFieldText(f))

(* quinn_only with host, key and certificate resolves to QuinnOnly. *)
C1_Witness ==
  /\ Succeeded
  /\ setup.startup_type = "quinn_only"
  /\ MissingFields(setup) = {}
  /\ is_none(setup.acme_domain)
  /\ Returned.val.startup_variant = "QuinnOnly"

(* C2: the listener bring-up never finds a field absent: after a successful
   load_generic_state, start_with_service never unwraps a None. *)
C2_ValidationComplete == server.status # "panicked"

(* C3: a call that ends in a validation error has registered no logging
   backend and has built no file appender. *)
C3_NoSinkBeforeValidationError ==
  FailedInValidation =>
    /\ is_none(global_default)
    /\ file_appender.status # "built"

(* C4: http_localhost with a server_host, whatever its value, never
   succeeds. *)
C4_LocalhostRejectsHost ==
  ( Called /\ setup.startup_type = "http_localhost"
    /\ is_some(setup.server_host) ) => Failed

(* http_localhost with host 127.0.0.1 is refused with the loopback error. *)
C4_Witness ==
  /\ setup.startup_type = "http_localhost"
  /\ setup.server_host = Some("127.0.0.1")
  /\ FailedWith(LocalhostOnly)

(* C5 as claimed: a startup_type outside the vocabulary fails with an
   UnknownVariant error that names the offending string. *)
C5_UnknownVariantNamesString ==
  ( Called /\ setup.startup_type \notin StartupTypes ) =>
    /\ FailedWith(UndeterminedDeployment)
    /\ Returned.err.format_args = << setup.startup_type >>

(* C5 as amended: a startup_type outside the vocabulary (compared exactly,
   case included) never yields a variant; when the logging stage of the call
   succeeded the error is the fixed "could not be determined" message, into
   which nothing is interpolated. *)
C5_UnknownVariantRejected ==
  ( Called /\ setup.startup_type \notin StartupTypes ) =>
    /\ Failed
    /\ ~FailedInLogging =>
         Returned.err = ErrorResponse(UndeterminedDeployment)

(* HTTPS_ONLY is not https_only. *)
C5_Witness ==
  /\ setup.startup_type = "HTTPS_ONLY"
  /\ is_none(setup.server_host)
  /\ FailedWith(UndeterminedDeployment)

(* C6: the five level strings map to five distinct levels, and a log_level
   or log_file_level that is present but is no such string makes
   load_generic_state fail with the incorrect-level error. *)
LevelStrings == { "error", "warn", "info", "debug", "trace" }
InvalidLevel(l) == is_some(l) /\ unwrap(l) \notin LevelStrings
C6_InvalidLevelFailsClosed ==
  /\ \A a, b \in LevelStrings :
       /\ match_log_level(Some(a)).ok
       /\ match_log_level(Some(a)) = match_log_level(Some(b)) => a = b
  /\ ( Called /\ ( InvalidLevel(setup.log_level)
                   \/ InvalidLevel(setup.log_file_level) ) ) =>
       FailedWith(IncorrectLoggingLevel)

(* C7: never, daily, hourly, minutely map to their rotation and an absent
   log_rolling to never, which is the rotation of the appender the call
   builds; any other string makes load_generic_state fail with the
   incorrect-rotation error. *)
RotationOf(r) ==
  CASE r = None -> "NEVER"
    [] r = Some("never") -> "NEVER"
    [] r = Some("daily") -> "DAILY"
    [] r = Some("hourly") -> "HOURLY"
    [] r = Some("minutely") -> "MINUTELY"
RotationStrings == { "never", "daily", "hourly", "minutely" }
InvalidRotation(r) == is_some(r) /\ unwrap(r) \notin RotationStrings
C7_RotationMapping ==
  Called =>
    /\ InvalidRotation(setup.log_rolling) => FailedWith(IncorrectRotation)
    /\ FailedWith(IncorrectRotation) => InvalidRotation(setup.log_rolling)
    /\ file_appender.status = "built" =>
         file_appender.rotation = RotationOf(setup.log_rolling)

(* A file sink configured with minutely rotation rotates minutely. *)
C7_Witness ==
  /\ Succeeded
  /\ setup.log_rolling = Some("minutely")
  /\ file_appender.status = "built"
  /\ file_appender.rotation = "MINUTELY"

(* C8: the file sink is active if and only if log_file_level is present:
   absent, the call builds no file appender and the state it returns has no
   guard; present, the state returned holds the guard. *)
C8_FileSinkIffFileLevel ==
  Called =>
    /\ is_none(setup.log_file_level) => file_appender.status = "none"
    /\ Succeeded =>
         ( is_some(setup.log_file_level)
             <=> is_some(Returned.val._file_log_guard) )

(* C9: once the process-wide backend is registered, every later call of
   load_generic_state returns an error and leaves the backend as it is. *)
C9_RegisteredAtMostOnce ==
  [][ ( is_some(global_default) /\ calls' = calls + 1 ) =>
        /\ ~unwrap(result').ok
        /\ global_default' = global_default ]_vars

(* A second call, with a different logging configuration, is refused and
   the first backend stays. *)
C9_Witness ==
  /\ calls = 2
  /\ FailedWith(AlreadySet)
  /\ global_default = Some(registry(Some("DEBUG"), None))
  /\ setup.log_file_level = Some("info")
  /\ file_appender.status = "built"

(* C10: after a call that ended in a validation error, a call with a
   corrected configuration (valid rotation, required fields present, the
   logs directory usable) succeeds. *)
Corrected(data) ==
  /\ data.startup_type \in StartupTypes
  /\ MissingFields(data) = {}
  /\ HostAllowed(data)
  /\ ~InvalidRotation(data.log_rolling)
C10_RetryAfterValidationError ==
  [][ ( FailedInValidation /\ calls' = calls + 1 /\ Corrected(setup')
        /\ file_appender'.status # "failed" ) =>
        unwrap(result').ok ]_vars

---------------------------------------------------------------------------
(* Properties of the port watcher and of load_generic_config *)

(* The texts of PortTexts whose trimmed content is an unsigned 16-bit
   integer, with that integer. *)
PortNumber == <<"8", "0", "8", "0", "\n">> :> 8080 @@ <<" ", "4", "4", "3">> :> 443
HoldsPort(file) == is_some(file) /\ unwrap(file) \in DOMAIN PortNumber

(* The watcher future receives an event in this step. *)
Receives == handled' = handled + 1
ReceivesChange ==
  Receives /\ Head(rx).ok /\ Head(rx).val.kind \in { "Modify", "Create" }
ReceivesError == Receives /\ ~Head(rx).ok

(* The file load_generic_config works on. *)
UsedFile == IF cwd_file.open = "Ok" THEN cwd_file ELSE etc_file
Loaded == unwrap(config)
WatchedLoad ==
  /\ lgc = "returned"
  /\ Loaded.ok
  /\ is_some(Loaded.val.server_port_achiever)

(* C11: a modify or create event received while the trimmed text of the port
   file is not an unsigned 16-bit integer leaves the watcher waiting and
   load_generic_config unreturned; one received while the file holds
   "8080\n" makes 8080 the port, which is the port of the configuration
   returned; once load_generic_config has returned, no event is received and
   what it returned does not change, whatever is written later. *)
C11_FirstParsedPortResolves ==
  [][ /\ ReceivesChange /\ ~HoldsPort(port_file)
         => watcher_pc' = "recv" /\ lgc' = "watching" /\ config' = None
      /\ ReceivesChange /\ HoldsPort(port_file)
         => /\ parsed_port' = Some(PortNumber[unwrap(port_file)])
            /\ watcher_pc' = "unwatch"
      /\ watcher_pc = "unwatch" => parsed_port' = parsed_port
      /\ WatchedLoad => Loaded.val.server_port = parsed_port
      /\ lgc = "returned" => config' = config /\ handled' = handled ]_vars

(* A load that waited through a text that is no port, returned 8080, and
   saw the file overwritten afterwards. *)
C11_Witness ==
  /\ WatchedLoad
  /\ Loaded.val.server_port = Some(8080)
  /\ handled = 2
  /\ writes = 3
  /\ port_file = Some(<<"6", "5", "5", "3", "6">>)

(* C12: the watcher future is never waiting in unwatch while the library's
   thread is blocked in the closure's blocking_send on the full channel. *)
C12_NeverDeadlocks == ~( watcher_pc = "unwatch" /\ callback.pc = "sending" )

(* C13: an Err received from the channel ends the watcher at once:
   load_generic_config returns that error and no configuration, no port is
   parsed, and the watcher receives nothing after it. *)
C13_WatchErrorTerminates ==
  [][ /\ ReceivesError
         => /\ watcher_pc' = "done"
            /\ lgc' = "returned"
            /\ config' = Some(Err(Head(rx).text))
            /\ parsed_port' = None
      /\ watcher_pc = "done" => handled' = handled /\ config' = config ]_vars

(* The watcher ended by an error it received, with an event still queued. *)
C13_Witness ==
  /\ config = Some(Err(WatchErrorText))
  /\ handled >= 2
  /\ rx_dropped
  /\ inotify # <<>>
  /\ server = NotStarted

(* C14: with server_port_achiever set, load_generic_config has returned a
   configuration only when the watcher is done, the configuration's
   server_port is the port the watcher parsed whatever the document said,
   nothing is bound before load_generic_config has returned, and the
   listener started on the returned configuration binds the watched port. *)
C14_WatchedPortIsBound ==
  /\ WatchedLoad
     => /\ watcher_pc = "done"
        /\ is_some(parsed_port)
        /\ Loaded.val.server_port = parsed_port
  /\ server.status # "not_started" => lgc = "returned" /\ Loaded.ok
  /\ WatchedLoad /\ server.status = "serving"
     => unwrap(server.listen)[2] = unwrap(parsed_port)

(* The document said 8801, the file 8080, and the listener is on 8080. *)
C14_Witness ==
  /\ WatchedLoad
  /\ unwrap(document).server_port = Some(8801)
  /\ server = Serving("127.0.0.1", 8080)

(* C15 as stated: /etc is opened exactly when the working-directory file
   does not exist. *)
C15_EtcOnlyWhenCwdMissing ==
  lgc # "idle" => ( "etc" \in opened <=> cwd_file.open = "NotFound" )

(* C15: /etc is opened exactly when File::open of the working-directory path
   fails, whether the file is missing or cannot be opened; a
   working-directory file that opens is the one used even if reading or
   parsing it fails; the load fails with the not-found error exactly when
   neither path opens, and that error is not the one of a malformed
   document. *)
C15_FirstOpenablePathWins ==
  lgc # "idle"
  => /\ "cwd" \in opened
     /\ "etc" \in opened <=> cwd_file.open # "Ok"
     /\ cwd_file.open = "Ok" /\ ~cwd_file.readable
        => config = Some(Err(ConfigReadFailed))
     /\ cwd_file.open = "Ok" /\ cwd_file.readable /\ is_none(cwd_file.yaml)
        => config = Some(Err(ConfigParseFailed))
     /\ cwd_file.open = "Ok" /\ is_some(cwd_file.yaml)
        => document \in { None, cwd_file.yaml }
     /\ cwd_file.open # "Ok" /\ is_some(etc_file.yaml)
        => document \in { None, etc_file.yaml }
     /\ config = Some(Err(ConfigNotFound))
        <=> cwd_file.open # "Ok" /\ etc_file.open # "Ok"
     /\ ConfigNotFound # ConfigParseFailed

(* The working-directory file cannot be opened and the /etc document is the
   one loaded. *)
C15_Witness ==
  /\ cwd_file = DeniedFile
  /\ opened = { "cwd", "etc" }
  /\ document = etc_file.yaml
  /\ is_some(document)

(* The fields allow_oapi_access asks for, with the error of each. *)
OapiRequired == { "oapi_name", "oapi_ver", "oapi_api_addr" }
OapiMissingText(f) ==
  CASE f = "oapi_name" -> OapiNameMissing
    [] f = "oapi_ver" -> OapiVerMissing
    [] f = "oapi_api_addr" -> OapiAddrMissing
OapiErrors == { Some(Err(OapiMissingText(f))) : f \in OapiRequired }
OapiAbsent(values) == { f \in OapiRequired : is_none(values[f]) }

(* C16: on a parsed document with allow_oapi_access true, the load succeeds
   only with oapi_name, oapi_ver and oapi_api_addr all present; with one of
   them absent it has returned the error of an absent field (of that field
   when it is the only one) without building a watcher or receiving an
   event; with allow_oapi_access absent or false it never returns one of
   the three errors. *)
C16_OapiFieldsRequired ==
  lgc # "idle" /\ UsedFile.open = "Ok" /\ is_some(UsedFile.yaml)
  => LET values == unwrap(UsedFile.yaml)
         absent == OapiAbsent(values)
     IN  IF values.allow_oapi_access = Some(TRUE)
         THEN /\ absent = {} => config \notin OapiErrors
              /\ absent # {}
                 => /\ lgc = "returned"
                    /\ \E f \in absent : config = Some(Err(OapiMissingText(f)))
                    /\ watcher_pc = "idle" /\ watches = {} /\ handled = 0
              /\ \A f \in OapiRequired :
                   absent = { f } => config = Some(Err(OapiMissingText(f)))
         ELSE config \notin OapiErrors

(* The mount path alone is absent and the document names a port file: the
   load has failed on the path and no watcher exists. *)
C16_Witness ==
  /\ config = Some(Err(OapiAddrMissing))
  /\ is_some(unwrap(UsedFile.yaml).server_port_achiever)
  /\ is_some(port_file)
  /\ watcher_pc = "idle"

---------------------------------------------------------------------------
(* Properties of start, of the shutdown triggers and of the root routers *)

Stopping == server.status \in { "stopping", "stopped" }
QuicVariants == { "QuinnAcme", "Quinn", "QuinnOnly" }

(* C17: whichever of the Ctrl+C task and the caller's clones of the handle
   asks first, a stop request on a serving server starts the graceful stop,
   a stop request on a server already stopping or stopped changes nothing,
   and the server begins to stop at most once and never serves again. *)
C17_StopsExactlyOnce ==
  [][ /\ stop_requests' = stop_requests + 1
         => IF server.status = "serving"
            THEN server'.status = "stopping" /\ stops' = stops + 1
            ELSE server' = server /\ stops' = stops
      /\ stops' <= 1
      /\ Stopping => Stopping' /\ stops' = stops
      /\ Stopping <=> stops = 1 ]_vars

(* Ctrl+C and two triggers of the caller have all fired; one stop. *)
C17_Witness ==
  /\ shutdown_task = "done"
  /\ stop_requests = 3
  /\ stops = 1
  /\ server.status = "stopped"

(* C18: a listener that could not be brought up has been returned to the
   caller of start as an error value, with no server running and no
   shutdown task spawned. *)
C18_BringUpFailureReturned ==
  server.status \in { "error", "bind_panicked" }
  => server.status = "error" /\ shutdown_task = "none"

(* C19: with auto_migrate_bin set, a call of start_with_service has launched
   the program once and no outcome of the launch has been returned to the
   caller in place of the listener. *)
C19_MigrationFireAndForget ==
  is_some(setup.auto_migrate_bin) /\ server.status # "not_started"
  => migration.spawns = 1 /\ server.status # "spawn_error"

(* C20: the root router carries h3_header exactly for the QUIC variants, and
   the Alt-Svc value of a response names the port the listener is bound
   to. *)
C20_AltSvcCarriesBoundPort ==
  /\ router # None /\ result # None /\ Returned.ok
     => ( ( \E i \in DOMAIN unwrap(router).hoops : unwrap(router).hoops[i] = "h3_header" )
          <=> Returned.val.startup_variant \in QuicVariants )
  /\ response # None /\ is_some(unwrap(response).alt_svc)
     => unwrap(unwrap(response).alt_svc).h3 = unwrap(server.listen)[2]

---------------------------------------------------------------------------
(* The watcher and a port written before the watch *)

(* The watcher future is waiting on rx.recv() with nothing on its way to it. *)
NothingToReceive ==
  /\ watcher_pc = "recv"
  /\ rx = <<>>
  /\ inotify = <<>>
  /\ callback.pc = "idle"

(* C21: the watcher parses a port only in a step that receives a modify or
   create event, and load_generic_config leaves its wait only in a step of
   the watcher; while the file has not changed since the watch was
   registered, whatever it held then (a valid port included), the load is
   still waiting with no configuration, and no step of the watcher or of the
   library's thread is enabled: only a later event can end the wait. *)
C21_ReadsOnlyOnEvents ==
  [][ /\ parsed_port' # parsed_port /\ is_some(parsed_port') => ReceivesChange
      /\ lgc = "watching" /\ lgc' # "watching"
         => handled' >= 1 /\ (ReceivesError \/ watcher_pc = "unwatch")
      /\ lgc = "watching" /\ writes = 0
         => /\ config = None
            /\ handled = 0
            /\ NothingToReceive
            /\ ~ENABLED (Recv \/ Unwatch \/ Callback \/ BlockingSendWakes \/ WatcherDropped) ]_vars

(* The file held 8080 when the watch was registered and nothing has
   happened to it since: the load waits. *)
C21_Witness ==
  /\ lgc = "watching"
  /\ writes = 0
  /\ port_file = Some(<<"8", "0", "8", "0", "\n">>)
  /\ config = None
  /\ NothingToReceive

====
